---- MODULE Spec2Model ----
(***************************************************************************)
(* Model of SignalSciencesAPIClient (src/src/client.ts): the per-fetch     *)
(* authentication cycle, the axios-retry transport layer configured in the *)
(* constructor, the classification of GET responses and the three resource *)
(* iterators.  One logical thread of control; an action is the code that   *)
(* runs between two suspension points (await).                             *)
(***************************************************************************)
EXTENDS Integers, Sequences, FiniteSets, TLC

VARIABLES
    pc,          \* where the thread is: idle | auth (POST in flight) | get (GET in flight) | cb (awaiting iteratee)
    op,          \* public method of the call in progress / last finished
    corpName,    \* its corpName argument (JSUndefined for the methods without one)
    endpoint,    \* endpoint handed to fetch
    token,       \* this.token
    tokenSeq,    \* number of tokens the provider has issued so far
    calls,       \* number of public method calls made
    fetches,     \* fetch() invocations of the current call
    authCalls,   \* authenticate() invocations of the current call
    wire,        \* requests put on the wire by the current call, in order, with their outcomes
    retryCount,  \* axios-retry state of the request in flight
    retryLog,    \* retries scheduled by the retry layer during the current call
    authErr,     \* error caught by authenticate()'s catch block
    lastResponse,\* response the GET resolved with
    fetchRet,    \* what fetch() returned or threw
    data,        \* collection the iterator loops over
    idx,         \* position of the for..of loop (1-based)
    invoked,     \* elements the iteratee has been invoked with, in order
    inProgress,  \* loop positions whose iteratee has started and not completed
    result,      \* what the caller of the public method observes
    authResponse,\* response the POST /auth resolved with
    authRet,     \* what authenticate() returned
    \* a second call of verifyAuthentication on the same client, in flight at the same time
    bgPc,        \* where it is: idle | auth | get
    bgStarted,   \* whether that call has been made
    bgRetry,     \* axios-retry state of its request in flight
    bgRet,       \* what its authenticate() returned
    bgSent,      \* Authorization header its GET was sent with
    \* the cloud-WAF step
    stepPc,      \* ready | iterating (inside the iterator's loop) | done | failed
    delivered,   \* collection the iterator hands to the step's iteratee, element by element
    stepIdx,     \* element the iteratee is invoked with next
    collectedEntities, \* jobState: entities added so far
    stepError    \* error the step failed with

\* state of the first call apart from the fields of the client the two calls share
callVars == <<pc, op, corpName, endpoint, calls, fetches, authCalls, wire, retryCount,
              retryLog, authErr, lastResponse, fetchRet, data, idx, invoked, inProgress,
              result, authResponse, authRet>>
bgVars == <<bgPc, bgStarted, bgRetry, bgRet, bgSent>>
stepVars == <<stepPc, delivered, stepIdx, collectedEntities, stepError>>

vars == <<pc, op, corpName, endpoint, token, tokenSeq, calls, fetches, authCalls,
          wire, retryCount, retryLog, authErr, lastResponse, fetchRet, data, idx,
          invoked, inProgress, result, authResponse, authRet, bgVars, stepVars>>

(***************************************************************************)
(* Bounds of the model.                                                    *)
(***************************************************************************)
MaxCalls == 2
MaxLen == 2

(***************************************************************************)
(* JavaScript values.                                                      *)
(***************************************************************************)
JSUndefined == [t |-> "undefined"]
Str(s) == [t |-> "string", v |-> s]
Num(n) == [t |-> "number", v |-> n]
Arr(s) == [t |-> "array", items |-> s]
Obj(d) == [t |-> "object", data |-> d]

\* property read: a property the object does not have reads as undefined
Prop(o, k) == IF k \in DOMAIN o THEN o[k] ELSE JSUndefined

\* JavaScript truthiness of the values a corp argument can take
Truthy(v) == /\ v # JSUndefined
             /\ v # Str("")

BASE_URI == "https://dashboard.signalsciences.net/api/v0"
AUTH_ENDPOINT == BASE_URI \o "/auth"
\* variant: a misspelt path
CORPS_ENDPOINT_Misspelt == BASE_URI \o "/corp"

CORPS_ENDPOINT == BASE_URI \o "/corps"

retries == 5

SeqsUpTo(S, n) == UNION {[1..k -> S] : k \in 0..n}

(***************************************************************************)
(* The provider and the network: the inputs of the model.                  *)
(***************************************************************************)
Records == {[id |-> 1, name |-> "acme"], [id |-> 2, name |-> "globex"]}
Collections == SeqsUpTo(Records, MaxLen)
\* bodies of a 200 response: the provider's envelope {data: [...]} or a bare array
Bodies == {Obj(Arr(s)) : s \in Collections} \cup {Arr(s) : s \in Collections}
CorpArgs == {JSUndefined, Str(""), Str("acme")}

GetStatuses == {200, 204, 401, 403, 404, 429, 500}
PostStatuses == {200, 201, 401, 403, 429, 500}
StatusText(s) ==
    CASE s = 200 -> "OK"
      [] s = 201 -> "Created"
      [] s = 204 -> "No Content"
      [] s = 401 -> "Unauthorized"
      [] s = 403 -> "Forbidden"
      [] s = 404 -> "Not Found"
      [] s = 429 -> "Too Many Requests"
      [] OTHER -> "Internal Server Error"

Response(s, d) == [t |-> "response", status |-> s, statusText |-> StatusText(s), data |-> d]
GetResponses == {Response(200, b) : b \in Bodies}
                \cup {Response(s, Str("error")) : s \in GetStatuses \ {200}}
\* transport failures: no response was received
NetworkCodes == {"ECONNRESET", "ECONNABORTED"}

\* the error axios rejects with
AxiosError(method, code, response) ==
    [name |-> "AxiosError", method |-> method, code |-> code, response |-> response]
TransportError(method, c) == AxiosError(method, Str(c), JSUndefined)
StatusError(method, r) == AxiosError(method, JSUndefined, r)

Tok(n) == [t |-> "token", n |-> n]
Bearer(tk) == [scheme |-> "Bearer", token |-> tk]

Request(method, url, auth) ==
    [method |-> method, url |-> url, auth |-> auth, outcome |-> [t |-> "pending"]]

\* the last request on the wire gets its outcome
Settle(w, out) == [w EXCEPT ![Len(w)].outcome = out]

(***************************************************************************)
(* Errors the client raises.                                               *)
(***************************************************************************)
IntegrationProviderAuthenticationError(ep, cause, status, statusText) ==
    [kind |-> "IntegrationProviderAuthenticationError", endpoint |-> ep,
     cause |-> cause, status |-> status, statusText |-> statusText]
IntegrationProviderAPIError(ep, cause, status, statusText) ==
    [kind |-> "IntegrationProviderAPIError", endpoint |-> ep,
     cause |-> cause, status |-> status, statusText |-> statusText]
Error(msg) == [kind |-> "Error", message |-> msg]
TypeError(msg) == [kind |-> "TypeError", message |-> msg]

Return(v) == [kind |-> "return", value |-> v]
Throw(e) == [kind |-> "throw", error |-> e]
NotCalled == [kind |-> "none"]

Pending == [kind |-> "pending"]
Resolved == [kind |-> "resolved"]
\* variant: the public method catches the error and completes normally
Rejected_Swallowed(e) == Resolved

Rejected(e) == [kind |-> "rejected", error |-> e]

(***************************************************************************)
(* Transport: axios with the axios-retry interceptor of the constructor.   *)
(***************************************************************************)
\* error.response?.status
ResponseStatus(error) ==
    IF error.response = JSUndefined THEN JSUndefined ELSE Num(error.response.status)

retryDelay(n, error) ==
    IF ResponseStatus(error) = Num(429) THEN n * 1000 ELSE 0

\* no retryCondition is configured, so the layer's default decides: a failure
\* without a response (other than an aborted request) for any method, or a 5xx
\* failure of an idempotent method
retryCondition(error) ==
    LET isRetryableError ==
            /\ error.code # Str("ECONNABORTED")
            /\ IF error.response = JSUndefined
               THEN TRUE
               ELSE error.response.status \in 500..599
    IN \/ /\ error.response = JSUndefined
          /\ error.code # JSUndefined
          /\ error.code # Str("ECONNABORTED")
       \/ /\ isRetryableError
          /\ error.method \in {"GET", "HEAD", "OPTIONS", "PUT", "DELETE"}

\* variant: the retry budget is compared with <= instead of <
shouldRetry_OffByOne(error, count) == retryCondition(error) /\ count <= retries

shouldRetry(error, count) == retryCondition(error) /\ count < retries

\* axios.post is called without validateStatus: only 2xx resolves
postValidateStatus(status) == status >= 200 /\ status < 300
\* axios.get is called with validateStatus: () => true
getValidateStatus(status) == TRUE

(***************************************************************************)
(* SignalSciencesAPIClient                                                 *)
(***************************************************************************)
\* variant: only a missing corp is rejected, an empty string is not
buildEndpoint_UndefinedOnly(corp, path) ==
    IF corp = JSUndefined
    THEN Throw(Error("Parameter 'corp' is required, but received undefined"))
    ELSE Return(BASE_URI \o "/corps/" \o corp.v \o path)

buildEndpoint(corp, path) ==
    IF ~Truthy(corp)
    THEN Throw(Error("Parameter 'corp' is required, but received "
                     \o (IF corp = JSUndefined THEN "undefined" ELSE corp.v)))
    ELSE Return(BASE_URI \o "/corps/" \o corp.v \o path)

\* variant: the caught error is thrown again as it is
authenticateCatch_Rethrow(err) == err

\* the catch block of authenticate()
authenticateCatch(err) ==
    IntegrationProviderAuthenticationError(
        AUTH_ENDPOINT, JSUndefined, Prop(err, "status"), Prop(err, "statusText"))

\* variant: the whole body is returned instead of its token (return response.data)
authenticateReturn_WholeBody(response) == response.data

\* return response.data.token
authenticateReturn(response) == response.data.token

\* variant: a token already stored is kept (this.token = this.token || ...)
fetchToken_Cached(previous, authenticated) ==
    IF previous # JSUndefined THEN previous ELSE authenticated

\* this.token = await this.authenticate()
fetchToken(previous, authenticated) == authenticated

\* headers of the GET
fetchHeaders(tk) == Bearer(tk)

\* variant: the whole response is returned instead of its body
fetchOutcome_ReturnsResponse(ep, response) ==
    IF response.status = 200
    THEN Return(response)
    ELSE IF response.status \in {401, 403}
    THEN Throw(IntegrationProviderAuthenticationError(
                   ep, response.data, Num(response.status), Str(response.statusText)))
    ELSE Throw(IntegrationProviderAPIError(
                   ep, response.data, Num(response.status), Str(response.statusText)))

\* variant: 403 is not treated as an authentication failure
fetchOutcome_Only401(ep, response) ==
    IF response.status = 200
    THEN Return(response.data)
    ELSE IF response.status \in {401}
    THEN Throw(IntegrationProviderAuthenticationError(
                   ep, response.data, Num(response.status), Str(response.statusText)))
    ELSE Throw(IntegrationProviderAPIError(
                   ep, response.data, Num(response.status), Str(response.statusText)))

\* variant: every 2xx status is treated as success
fetchOutcome_Any2xx(ep, response) ==
    IF response.status \in 200..299
    THEN Return(response.data)
    ELSE IF response.status \in {401, 403}
    THEN Throw(IntegrationProviderAuthenticationError(
                   ep, response.data, Num(response.status), Str(response.statusText)))
    ELSE Throw(IntegrationProviderAPIError(
                   ep, response.data, Num(response.status), Str(response.statusText)))

\* classification of the GET response by fetch()
fetchOutcome(ep, response) ==
    IF response.status = 200
    THEN Return(response.data)
    ELSE IF response.status \in {401, 403}
    THEN Throw(IntegrationProviderAuthenticationError(
                   ep, response.data, Num(response.status), Str(response.statusText)))
    ELSE Throw(IntegrationProviderAPIError(
                   ep, response.data, Num(response.status), Str(response.statusText)))

\* variant: the body itself is taken for the collection
destructureData_NoEnvelope(body) == body

\* const { data } = await this.fetch(endpoint)
destructureData(body) == Prop(body, "data")

\* variant: the iteratees are not awaited one by one (all are started at once)
loopBatchEnd_FanOut(items, i) == Len(items)

\* for (const x of data) { await iteratee(x) }: having reached element i the
\* loop invokes the iteratee for the elements i..loopBatchEnd(items, i) and
\* suspends until the iteratee of element i has completed
loopBatchEnd(items, i) == i

(***************************************************************************)
(* Cloud-WAF converter (steps/cloudwaf/converter) and the records it is    *)
(* applied to.                                                             *)
(***************************************************************************)
WAFIds == {"w1", "w2", "w3"}
WorkspaceConfigs == {Arr(<<>>),
                     Arr(<<[siteName |-> Str("s1")]>>),
                     Arr(<<[siteName |-> Str("s2")], [siteName |-> Str("s1")]>>)}
Deployments == {JSUndefined,
                [t |-> "object", status |-> Str("done"), message |-> Str(""),
                 egressIps |-> Arr(<<>>), dnsEntry |-> Str("waf.example.net")]}
WAFRecords == {[id |-> i, name |-> Str("waf-" \o i), workspaceConfigs |-> w, deployment |-> d] :
                   i \in WAFIds, w \in WorkspaceConfigs, d \in Deployments}
\* collections of cloud-WAF instances of one corp: the provider's ids are unique
WAFCollections == {c \in SeqsUpTo(WAFRecords, MaxLen) :
                       \A i, j \in DOMAIN c : c[i].id = c[j].id => i = j}

CLOUD_WAF_TYPE == "sigsci_cloudwaf"
CLOUD_WAF_CLASS == <<"Firewall">>

\* array[0]
First(arr) == IF arr.items = <<>> THEN JSUndefined ELSE arr.items[1]

\* undefined stays undefined, a timestamp becomes a number (its epoch milliseconds)
parseTimePropertyValue(time) ==
    IF time = JSUndefined THEN JSUndefined ELSE [t |-> "number", epochOf |-> time]

createIntegrationEntity(source, assign) ==
    [_type |-> assign._type, _class |-> assign._class, _key |-> assign._key,
     name |-> assign.name, displayName |-> assign.displayName,
     category |-> assign.category, description |-> assign.description,
     region |-> assign.region, tlsMinVersion |-> assign.tlsMinVersion,
     siteName |-> assign.siteName, deploymentStatus |-> assign.deploymentStatus,
     deploymentMessage |-> assign.deploymentMessage,
     deploymentEgressIps |-> assign.deploymentEgressIps,
     deploymentDnsEntry |-> assign.deploymentDnsEntry,
     useUploadedCertificates |-> assign.useUploadedCertificates,
     createdBy |-> assign.createdBy, created |-> assign.created,
     updatedBy |-> assign.updatedBy,
     _rawData |-> <<[name |-> "default", rawData |-> source]>>]

\* variant: the id is not interpolated into the key
getCloudWAFKey_NoInterpolation(id) == "sigsci_cloudwaf:id"

getCloudWAFKey(id) == "sigsci_cloudwaf:" \o id

\* the properties assigned by createCloudWAFEntity, given the values read
\* from workspaceConfigs[0] and deployment
CloudWAFAssign(cloudWAF, siteName, deployment) ==
    [_type |-> CLOUD_WAF_TYPE,
     _class |-> CLOUD_WAF_CLASS,
     _key |-> getCloudWAFKey(cloudWAF.id),
     name |-> cloudWAF.name,
     displayName |-> cloudWAF.name,
     category |-> <<"application">>,
     description |-> Prop(cloudWAF, "description"),
     region |-> Prop(cloudWAF, "region"),
     tlsMinVersion |-> Prop(cloudWAF, "tlsMinVersion"),
     siteName |-> siteName,
     deploymentStatus |-> Prop(deployment, "status"),
     deploymentMessage |-> Prop(deployment, "message"),
     deploymentEgressIps |-> Prop(deployment, "egressIps"),
     deploymentDnsEntry |-> Prop(deployment, "dnsEntry"),
     useUploadedCertificates |-> Prop(cloudWAF, "useUploadedCertificates"),
     createdBy |-> Prop(cloudWAF, "createdBy"),
     created |-> parseTimePropertyValue(Prop(cloudWAF, "created")),
     updatedBy |-> Prop(cloudWAF, "updatedBy")]

\* variant: optional chaining on workspaceConfigs[0] and deployment
createCloudWAFEntity_OptionalChaining(cloudWAF) ==
    Return(createIntegrationEntity(cloudWAF,
               CloudWAFAssign(cloudWAF,
                              Prop(First(cloudWAF.workspaceConfigs), "siteName"),
                              cloudWAF.deployment)))

\* reading a property of undefined raises a TypeError
createCloudWAFEntity(cloudWAF) ==
    IF First(cloudWAF.workspaceConfigs) = JSUndefined
    THEN Throw(TypeError("Cannot read properties of undefined (reading 'siteName')"))
    ELSE IF cloudWAF.deployment = JSUndefined
    THEN Throw(TypeError("Cannot read properties of undefined (reading 'status')"))
    ELSE Return(createIntegrationEntity(cloudWAF,
                    CloudWAFAssign(cloudWAF,
                                   First(cloudWAF.workspaceConfigs).siteName,
                                   cloudWAF.deployment)))

\* the organization entity the step finds in the job state
OrganizationEntity ==
    [_class |-> <<"Organization">>, name |-> Str("jupiterone"),
     displayName |-> Str("JupiterOne")]

(***************************************************************************)
(* State after construction.                                               *)
(***************************************************************************)
Init ==
    /\ pc = "idle"
    /\ op = "none"
    /\ corpName = JSUndefined
    /\ endpoint = ""
    /\ token = JSUndefined
    /\ tokenSeq = 0
    /\ calls = 0
    /\ fetches = 0
    /\ authCalls = 0
    /\ wire = <<>>
    /\ retryCount = 0
    /\ retryLog = <<>>
    /\ authErr = JSUndefined
    /\ lastResponse = JSUndefined
    /\ fetchRet = NotCalled
    /\ data = JSUndefined
    /\ idx = 0
    /\ invoked = <<>>
    /\ inProgress = {}
    /\ result = Pending
    /\ authResponse = JSUndefined
    /\ authRet = JSUndefined
    /\ bgPc = "idle"
    /\ bgStarted = FALSE
    /\ bgRetry = 0
    /\ bgRet = JSUndefined
    /\ bgSent = JSUndefined
    /\ stepPc = "ready"
    /\ delivered = <<>>
    /\ stepIdx = 0
    /\ collectedEntities = <<OrganizationEntity>>
    /\ stepError = JSUndefined

\* entry of a public method: the state of the previous call is forgotten
Enter(o, c) ==
    /\ pc = "idle"
    /\ calls < MaxCalls
    /\ calls' = calls + 1
    /\ op' = o
    /\ corpName' = c
    /\ retryLog' = <<>>
    /\ authErr' = JSUndefined
    /\ lastResponse' = JSUndefined
    /\ fetchRet' = NotCalled
    /\ data' = JSUndefined
    /\ idx' = 0
    /\ invoked' = <<>>
    /\ inProgress' = {}
    /\ retryCount' = 0
    /\ authResponse' = JSUndefined
    /\ authRet' = JSUndefined
    /\ UNCHANGED <<token, tokenSeq>>
    /\ UNCHANGED <<bgVars, stepVars>>

\* fetch(ep) up to its first suspension: authenticate() posts the credentials
StartFetch(ep) ==
    /\ endpoint' = ep
    /\ fetches' = 1
    /\ authCalls' = 1
    /\ wire' = <<Request("POST", AUTH_ENDPOINT, JSUndefined)>>
    /\ pc' = "auth"
    /\ result' = Pending

\* the public method throws before it reaches fetch
FailFast(e) ==
    /\ endpoint' = ""
    /\ fetches' = 0
    /\ authCalls' = 0
    /\ wire' = <<>>
    /\ pc' = "idle"
    /\ result' = Rejected(e)

verifyAuthentication ==
    /\ Enter("verifyAuthentication", JSUndefined)
    /\ StartFetch(CORPS_ENDPOINT)

iterateCorps ==
    /\ Enter("iterateCorps", JSUndefined)
    /\ StartFetch(CORPS_ENDPOINT)

iterateUsers ==
    \E c \in CorpArgs :
        /\ Enter("iterateUsers", c)
        /\ LET ep == buildEndpoint(c, "/users")
           IN IF ep.kind = "throw" THEN FailFast(ep.error) ELSE StartFetch(ep.value)

iterateCloudWAFInstances ==
    \E c \in CorpArgs :
        /\ Enter("iterateCloudWAFInstances", c)
        /\ LET ep == buildEndpoint(c, "/cloudwafInstances")
           IN IF ep.kind = "throw" THEN FailFast(ep.error) ELSE StartFetch(ep.value)

(***************************************************************************)
(* POST /auth in flight.                                                   *)
(***************************************************************************)
\* failures of the POST: no response, or a response validateStatus rejects
PostErrors ==
    {TransportError("POST", c) : c \in NetworkCodes}
    \cup {StatusError("POST", Response(s, Str("error"))) :
              s \in {x \in PostStatuses : ~postValidateStatus(x)}}

ErrorOutcome(err) ==
    IF err.response = JSUndefined
    THEN [t |-> "error", code |-> err.code.v]
    ELSE [t |-> "response", status |-> err.response.status]

\* the retry layer re-sends the failed POST
AuthRetry ==
    /\ pc = "auth"
    /\ \E err \in PostErrors :
        /\ shouldRetry(err, retryCount)
        /\ retryCount' = retryCount + 1
        /\ retryLog' = Append(retryLog,
               [method |-> "POST", n |-> retryCount + 1, status |-> ResponseStatus(err),
                delay |-> retryDelay(retryCount + 1, err)])
        /\ wire' = Append(Settle(wire, ErrorOutcome(err)),
                          Request("POST", AUTH_ENDPOINT, JSUndefined))
    /\ UNCHANGED <<pc, op, corpName, endpoint, token, tokenSeq, calls, fetches, authCalls,
                   authErr, lastResponse, fetchRet, data, idx, invoked, inProgress, result>>
    /\ UNCHANGED <<authResponse, authRet, bgVars, stepVars>>

\* axios.post rejects: authenticate() catches and throws, fetch() and the
\* public method pass the error on
AuthReject ==
    /\ pc = "auth"
    /\ \E err \in PostErrors :
        /\ ~shouldRetry(err, retryCount)
        /\ wire' = Settle(wire, ErrorOutcome(err))
        /\ authErr' = err
        /\ fetchRet' = Throw(authenticateCatch(err))
        /\ result' = Rejected(authenticateCatch(err))
    /\ pc' = "idle"
    /\ UNCHANGED <<op, corpName, endpoint, token, tokenSeq, calls, fetches, authCalls,
                   retryCount, retryLog, lastResponse, data, idx, invoked, inProgress>>
    /\ UNCHANGED <<authResponse, authRet, bgVars, stepVars>>

\* axios.post resolves with a 2xx response carrying a newly issued token:
\* authenticate() returns it, fetch() stores it and sends the GET
AuthResolve ==
    /\ pc = "auth"
    /\ \E s \in {x \in PostStatuses : postValidateStatus(x)} :
        LET response == Response(s, [token |-> Tok(tokenSeq + 1)])
            tk == fetchToken(token, authenticateReturn(response))
        IN /\ authResponse' = response
           /\ authRet' = authenticateReturn(response)
           /\ token' = tk
           /\ wire' = Append(Settle(wire, [t |-> "response", status |-> s]),
                             Request("GET", endpoint, fetchHeaders(tk)))
    /\ tokenSeq' = tokenSeq + 1
    /\ retryCount' = 0
    /\ pc' = "get"
    /\ UNCHANGED <<op, corpName, endpoint, calls, fetches, authCalls, retryLog, authErr,
                   lastResponse, fetchRet, data, idx, invoked, inProgress, result>>
    /\ UNCHANGED <<bgVars, stepVars>>

(***************************************************************************)
(* GET in flight.                                                          *)
(***************************************************************************)
\* failures of the GET: no response, or a response validateStatus rejects
GetErrors ==
    {TransportError("GET", c) : c \in NetworkCodes}
    \cup {StatusError("GET", r) : r \in {x \in GetResponses : ~getValidateStatus(x.status)}}

\* the for..of loop of an iterator, arriving at element i with the iteratees
\* of the positions in running still in progress
LoopAt(items, i, running) ==
    IF i > Len(items)
    THEN /\ pc' = "idle"
         /\ result' = Resolved
         /\ idx' = i
         /\ invoked' = invoked
         /\ inProgress' = running
    ELSE /\ pc' = "cb"
         /\ result' = result
         /\ idx' = i
         /\ invoked' = invoked \o SubSeq(items, i, loopBatchEnd(items, i))
         /\ inProgress' = running \cup (i..loopBatchEnd(items, i))

\* the retry layer re-sends the failed GET: same request, same headers
GetRetry ==
    /\ pc = "get"
    /\ \E err \in GetErrors :
        /\ shouldRetry(err, retryCount)
        /\ retryCount' = retryCount + 1
        /\ retryLog' = Append(retryLog,
               [method |-> "GET", n |-> retryCount + 1, status |-> ResponseStatus(err),
                delay |-> retryDelay(retryCount + 1, err)])
        /\ wire' = Append(Settle(wire, ErrorOutcome(err)),
                          [wire[Len(wire)] EXCEPT !.outcome = [t |-> "pending"]])
    /\ UNCHANGED <<pc, op, corpName, endpoint, token, tokenSeq, calls, fetches, authCalls,
                   authErr, lastResponse, fetchRet, data, idx, invoked, inProgress, result>>
    /\ UNCHANGED <<authResponse, authRet, bgVars, stepVars>>

\* axios.get rejects: nothing in fetch() or the public method catches it
GetReject ==
    /\ pc = "get"
    /\ \E err \in GetErrors :
        /\ ~shouldRetry(err, retryCount)
        /\ wire' = Settle(wire, ErrorOutcome(err))
        /\ fetchRet' = Throw(err)
        /\ result' = Rejected(err)
    /\ pc' = "idle"
    /\ UNCHANGED <<op, corpName, endpoint, token, tokenSeq, calls, fetches, authCalls,
                   retryCount, retryLog, authErr, lastResponse, data, idx, invoked,
                   inProgress>>
    /\ UNCHANGED <<authResponse, authRet, bgVars, stepVars>>

\* axios.get resolves: fetch() classifies the response; on a return the
\* public method goes on (verifyAuthentication ends, an iterator destructures
\* the body and enters its loop)
GetResolve ==
    /\ pc = "get"
    /\ \E r \in {x \in GetResponses : getValidateStatus(x.status)} :
        LET ret == fetchOutcome(endpoint, r)
        IN /\ wire' = Settle(wire, [t |-> "response", status |-> r.status])
           /\ lastResponse' = r
           /\ fetchRet' = ret
           /\ IF ret.kind = "throw"
              THEN /\ result' = Rejected(ret.error)
                   /\ pc' = "idle"
                   /\ UNCHANGED <<data, idx, invoked, inProgress>>
              ELSE IF op = "verifyAuthentication"
              THEN /\ result' = Resolved
                   /\ pc' = "idle"
                   /\ UNCHANGED <<data, idx, invoked, inProgress>>
              ELSE /\ data' = destructureData(ret.value)
                   /\ IF Prop(destructureData(ret.value), "t") # "array"
                      THEN /\ result' = Rejected(TypeError("data is not iterable"))
                           /\ pc' = "idle"
                           /\ UNCHANGED <<idx, invoked, inProgress>>
                      ELSE LoopAt(destructureData(ret.value).items, 1, inProgress)
    /\ UNCHANGED <<op, corpName, endpoint, token, tokenSeq, calls, fetches, authCalls,
                   retryCount, retryLog, authErr>>
    /\ UNCHANGED <<authResponse, authRet, bgVars, stepVars>>

(***************************************************************************)
(* Awaiting the iteratee.                                                  *)
(***************************************************************************)
\* the awaited iteratee completes: the loop moves to the next element
IterateeReturn ==
    /\ pc = "cb"
    /\ idx \in inProgress
    /\ LoopAt(data.items, idx + 1, inProgress \ {idx})
    /\ UNCHANGED <<op, corpName, endpoint, token, tokenSeq, calls, fetches, authCalls,
                   wire, retryCount, retryLog, authErr, lastResponse, fetchRet, data>>
    /\ UNCHANGED <<authResponse, authRet, bgVars, stepVars>>

\* the awaited iteratee throws or rejects: the loop is abandoned
IterateeThrow ==
    /\ pc = "cb"
    /\ idx \in inProgress
    /\ inProgress' = inProgress \ {idx}
    /\ result' = Rejected([kind |-> "IterateeError", element |-> data.items[idx]])
    /\ pc' = "idle"
    /\ UNCHANGED <<op, corpName, endpoint, token, tokenSeq, calls, fetches, authCalls,
                   wire, retryCount, retryLog, authErr, lastResponse, fetchRet, data,
                   idx, invoked>>
    /\ UNCHANGED <<authResponse, authRet, bgVars, stepVars>>

Next ==
    \/ verifyAuthentication
    \/ iterateCorps
    \/ iterateUsers
    \/ iterateCloudWAFInstances
    \/ AuthRetry
    \/ AuthReject
    \/ AuthResolve
    \/ GetRetry
    \/ GetReject
    \/ GetResolve
    \/ IterateeReturn
    \/ IterateeThrow

Spec == Init /\ [][Next]_vars

TypeOK ==
    /\ pc \in {"idle", "auth", "get", "cb"}
    /\ calls \in 0..MaxCalls
    /\ retryCount \in 0..retries
    /\ tokenSeq \in 0..(MaxCalls + 1)

(***************************************************************************)
(* Vocabulary of the properties.                                           *)
(***************************************************************************)
Sent(method) == {i \in DOMAIN wire : wire[i].method = method}
Answered(i, s) == wire[i].outcome = [t |-> "response", status |-> s]
PostSucceeded(i) == /\ wire[i].method = "POST"
                    /\ \E s \in PostStatuses : postValidateStatus(s) /\ Answered(i, s)
GetStatus == IF lastResponse = JSUndefined THEN 0 ELSE lastResponse.status
Thrown == IF fetchRet.kind = "throw" THEN fetchRet.error ELSE [kind |-> "nothing"]
ThrownKind == IF "kind" \in DOMAIN Thrown THEN Thrown.kind ELSE Thrown.name
IsIterator == op \in {"iterateCorps", "iterateUsers", "iterateCloudWAFInstances"}
IterateeThrew == /\ result.kind = "rejected"
                 /\ "kind" \in DOMAIN result.error
                 /\ result.error.kind = "IterateeError"

(***************************************************************************)
(* C1 (as stated): every resource GET put on the wire is directly preceded *)
(* by its own successful POST /auth round-trip, and the number of         *)
(* completed POST /auth round-trips equals the number of GETs sent,        *)
(* re-sends by the retry layer included.                                   *)
(***************************************************************************)
C1_AuthRoundTripPerGetSent ==
    /\ \A i \in Sent("GET") : i > 1 /\ PostSucceeded(i - 1)
    /\ Sent("GET") # {} =>
           Cardinality({j \in DOMAIN wire : PostSucceeded(j)}) = Cardinality(Sent("GET"))

(***************************************************************************)
(* C1 (amended): every fetch calls authenticate() exactly once and         *)
(* completes exactly one successful POST /auth before its GET; every GET   *)
(* transmission of the fetch, re-sends included, carries the token that    *)
(* this authentication issued (the latest token issued, never the one of   *)
(* an earlier fetch).                                                      *)
(***************************************************************************)
C1_FreshAuthenticationPerFetch ==
    \A i \in Sent("GET") :
        /\ fetches = 1
        /\ authCalls = 1
        /\ Cardinality({j \in DOMAIN wire : PostSucceeded(j)}) = 1
        /\ \A j \in Sent("POST") : j < i
        /\ \E j \in 1..(i - 1) : PostSucceeded(j)
        /\ wire[i].url = endpoint
        /\ wire[i].auth = Bearer(Tok(tokenSeq))
        /\ token = Tok(tokenSeq)

\* a second fetch whose GET was re-sent by the retry layer
C1_Witness ==
    /\ calls = 2
    /\ tokenSeq = 2
    /\ Cardinality(Sent("GET")) >= 2
    /\ Cardinality(Sent("POST")) >= 2

(***************************************************************************)
(* C2: a fetch whose GET is answered with status 200 returns the response  *)
(* body unchanged and throws nothing.                                      *)
(***************************************************************************)
C2_OkReturnsBody ==
    GetStatus = 200 => fetchRet = Return(lastResponse.data)

C2_Witness ==
    /\ GetStatus = 200
    /\ fetchRet.kind = "return"
    /\ fetchRet.value = Obj(Arr(<<[id |-> 1, name |-> "acme"]>>))

(***************************************************************************)
(* C3: a fetch whose GET is answered with status 401 or 403 throws an      *)
(* IntegrationProviderAuthenticationError carrying that status and the     *)
(* requested endpoint, and the caller observes that error.                 *)
(***************************************************************************)
C3_UnauthorizedThrowsAuthenticationError ==
    GetStatus \in {401, 403} =>
        /\ Thrown.kind = "IntegrationProviderAuthenticationError"
        /\ Thrown.status = Num(GetStatus)
        /\ Thrown.endpoint = endpoint
        /\ Thrown.endpoint = wire[Len(wire)].url
        /\ result = Rejected(Thrown)

C3_Witness ==
    /\ GetStatus = 403
    /\ op = "iterateUsers"
    /\ Thrown.kind = "IntegrationProviderAuthenticationError"

(***************************************************************************)
(* C4: a fetch whose GET is answered with any status other than 200, 401   *)
(* and 403 throws an IntegrationProviderAPIError carrying that status and  *)
(* the requested endpoint; every status has exactly one of the three       *)
(* outcomes.                                                               *)
(***************************************************************************)
C4_OtherStatusThrowsAPIError ==
    GetStatus # 0 =>
        /\ GetStatus \notin {200, 401, 403} =>
              /\ Thrown.kind = "IntegrationProviderAPIError"
              /\ Thrown.status = Num(GetStatus)
              /\ Thrown.endpoint = endpoint
              /\ result = Rejected(Thrown)
        /\ fetchRet.kind = "return" <=> GetStatus = 200
        /\ Thrown.kind = "IntegrationProviderAuthenticationError" <=> GetStatus \in {401, 403}
        /\ Thrown.kind = "IntegrationProviderAPIError" <=> GetStatus \notin {200, 401, 403}

C4_Witness ==
    /\ GetStatus = 204
    /\ Thrown.kind = "IntegrationProviderAPIError"
    /\ Thrown.status = Num(204)

(***************************************************************************)
(* C5: when the POST /auth fails, authenticate() throws an                 *)
(* IntegrationProviderAuthenticationError carrying the /auth endpoint, the *)
(* status and status text of the failed response, and the underlying       *)
(* cause.                                                                  *)
(***************************************************************************)
C5_AuthFailureCarriesStatusAndCause ==
    authErr # JSUndefined =>
        /\ Thrown.kind = "IntegrationProviderAuthenticationError"
        /\ Thrown.endpoint = AUTH_ENDPOINT
        /\ Thrown.status = ResponseStatus(authErr)
        /\ Thrown.statusText = (IF authErr.response = JSUndefined THEN JSUndefined
                                ELSE Str(authErr.response.statusText))
        /\ Thrown.cause # JSUndefined

(***************************************************************************)
(* C6: a request answered with 429 is re-sent by the retry layer (after    *)
(* retryCount x 1000 ms) as long as retries are left, so that a 429        *)
(* followed by a 200 surfaces no error: a call never ends on a 429 answer  *)
(* unless the retries of that request are used up.                         *)
(***************************************************************************)
C6_RateLimitedRequestIsRetried ==
    \A i \in DOMAIN wire :
        Answered(i, 429) =>
            \/ /\ i < Len(wire)
               /\ wire[i + 1].method = wire[i].method
               /\ \E k \in DOMAIN retryLog :
                      /\ retryLog[k].status = Num(429)
                      /\ retryLog[k].delay = retryLog[k].n * 1000
            \/ retryCount = retries

(***************************************************************************)
(* C7: the retry policy covers the POST /auth and the resource GET alike:  *)
(* a request is re-sent at most 5 times (6 transmissions at most), and the *)
(* delay before retry n is n * 1000 ms when the failed response had status *)
(* 429 and 0 ms for every other failure that is retried.                   *)
(***************************************************************************)
C7_RetryPolicy ==
    /\ retryCount <= 5
    /\ Cardinality(Sent("POST")) <= 6
    /\ Cardinality(Sent("GET")) <= 6
    /\ \A k \in DOMAIN retryLog :
           /\ retryLog[k].n \in 1..5
           /\ retryLog[k].delay =
                  (IF retryLog[k].status = Num(429) THEN retryLog[k].n * 1000 ELSE 0)
    /\ \A n \in 1..5 : \A m \in {"POST", "GET"} :
           /\ \A s \in GetStatuses \cup PostStatuses :
                  retryDelay(n, StatusError(m, Response(s, Str("error")))) =
                      (IF s = 429 THEN n * 1000 ELSE 0)
           /\ \A c \in NetworkCodes : retryDelay(n, TransportError(m, c)) = 0

\* both requests of one fetch used all their retries
C7_Witness ==
    /\ Cardinality(Sent("POST")) = 6
    /\ Cardinality(Sent("GET")) = 6
    /\ Len(retryLog) = 10
    /\ retryLog[5] = [method |-> "POST", n |-> 5, status |-> JSUndefined, delay |-> 0]
    /\ retryLog[10] = [method |-> "GET", n |-> 5, status |-> JSUndefined, delay |-> 0]

(***************************************************************************)
(* C8: iterateUsers and iterateCloudWAFInstances called with an empty or   *)
(* missing corp identifier throw a plain Error before any network call:    *)
(* nothing is sent and the iteratee is never invoked.                      *)
(***************************************************************************)
C8_EmptyCorpFailsFast ==
    (op \in {"iterateUsers", "iterateCloudWAFInstances"} /\ ~Truthy(corpName)) =>
        /\ pc = "idle"
        /\ result.kind = "rejected"
        /\ result.error.kind = "Error"
        /\ fetches = 0
        /\ authCalls = 0
        /\ wire = <<>>
        /\ invoked = <<>>

C8_Witness ==
    /\ op = "iterateCloudWAFInstances"
    /\ corpName = Str("")
    /\ result.kind = "rejected"
    /\ calls = 2
    /\ token # JSUndefined

(***************************************************************************)
(* C9: an iterator performs exactly one fetch and invokes the iteratee     *)
(* once per element of the collection, in collection order, one at a time: *)
(* the iteratee of element i+1 is not invoked before the iteratee of       *)
(* element i has completed.                                                *)
(***************************************************************************)
C9_SequentialIteration ==
    IsIterator =>
        /\ fetches <= 1
        /\ wire # <<>> => fetches = 1
        /\ Cardinality(inProgress) <= 1
        /\ invoked # <<>> => /\ data.t = "array"
                             /\ Len(invoked) <= Len(data.items)
                             /\ invoked = SubSeq(data.items, 1, Len(invoked))
        /\ pc = "cb" => /\ inProgress = {idx}
                        /\ Len(invoked) = idx
        /\ pc # "cb" => inProgress = {}
        /\ result = Resolved => /\ fetches = 1
                                /\ invoked = data.items

C9_Witness ==
    /\ op = "iterateUsers"
    /\ pc = "cb"
    /\ idx = 2
    /\ inProgress = {2}
    /\ invoked = <<[id |-> 2, name |-> "globex"], [id |-> 1, name |-> "acme"]>>

(***************************************************************************)
(* C10 (as stated): when GET /corps is answered 200 with a body that is    *)
(* itself the array of n corp records, iterateCorps invokes the iteratee   *)
(* n times, once with each record.                                         *)
(***************************************************************************)
C10_ArrayBodyIterated ==
    (/\ op = "iterateCorps"
     /\ pc = "idle"
     /\ GetStatus = 200
     /\ lastResponse.data.t = "array"
     /\ ~IterateeThrew) => invoked = lastResponse.data.items

(***************************************************************************)
(* C10 (amended): when GET /corps is answered 200 with a body whose data   *)
(* property is the array of n corp records, iterateCorps (no iteratee      *)
(* throwing) completes having invoked the iteratee n times, once with each *)
(* record, in order.                                                       *)
(***************************************************************************)
C10_EnvelopeDataIterated ==
    (/\ op = "iterateCorps"
     /\ pc = "idle"
     /\ GetStatus = 200
     /\ lastResponse.data.t = "object"
     /\ ~IterateeThrew) => /\ result = Resolved
                           /\ invoked = lastResponse.data.data.items

C10_Witness ==
    /\ op = "iterateCorps"
    /\ pc = "idle"
    /\ GetStatus = 200
    /\ lastResponse.data = Obj(Arr(<<[id |-> 1, name |-> "acme"]>>))
    /\ result = Resolved
    /\ invoked = <<[id |-> 1, name |-> "acme"]>>

(***************************************************************************)
(* C11: when the fetch of a public method ends in an                       *)
(* IntegrationProviderAuthenticationError or IntegrationProviderAPIError,  *)
(* the caller observes exactly that error, the call has no request left in *)
(* flight and sends none afterwards (one authenticate, one fetch, a        *)
(* classified GET answer is the last request), and the iteratee has not    *)
(* been invoked for any element.                                           *)
(***************************************************************************)
C11_ClassifiedErrorPropagates ==
    ThrownKind \in {"IntegrationProviderAuthenticationError",
                     "IntegrationProviderAPIError"} =>
        /\ pc = "idle"
        /\ result = [kind |-> "rejected", error |-> Thrown]
        /\ fetches = 1
        /\ authCalls = 1
        /\ \A i \in DOMAIN wire : wire[i].outcome.t # "pending"
        /\ Cardinality({i \in DOMAIN wire : wire[i].outcome.t = "response"}) =
               (IF authErr # JSUndefined
                THEN (IF authErr.response = JSUndefined THEN 0 ELSE 1)
                ELSE 2)
        /\ authErr # JSUndefined => Sent("GET") = {}
        /\ invoked = <<>>
        /\ inProgress = {}
        /\ data = JSUndefined

C11_Witness ==
    /\ op = "iterateCorps"
    /\ ThrownKind = "IntegrationProviderAPIError"
    /\ Thrown.status = Num(500)
    /\ Len(wire) = 2
    /\ result.kind = "rejected"

C13_TokenReturnedAndSent ==
    authResponse # JSUndefined =>
        /\ authRet = authResponse.data.token
        /\ authRet = Tok(tokenSeq)
        /\ Sent("GET") # {}
        /\ \A i \in Sent("GET") :
               wire[i].auth = [scheme |-> "Bearer", token |-> authResponse.data.token]
        /\ \E i \in Sent("GET") : PostSucceeded(i - 1)

\* the second fetch of the client: its token is the second one issued
C13_Witness ==
    /\ authResponse # JSUndefined
    /\ authResponse.data = [token |-> Tok(2)]
    /\ authRet = Tok(2)
    /\ pc = "get"
    /\ wire[Len(wire)].auth = Bearer(Tok(2))
    /\ wire[Len(wire)].url = BASE_URI \o "/corps/acme/users"

(***************************************************************************)
(* C17: when authenticate() fails inside fetch, fetch throws the           *)
(* IntegrationProviderAuthenticationError of authenticate (its endpoint is *)
(* /auth, not the requested endpoint), no GET is sent by that fetch, and   *)
(* this.token still has the value it had before the fetch.                 *)
(***************************************************************************)
C17_AuthFailureSendsNoGet ==
    /\ [](authErr # JSUndefined =>
             /\ ThrownKind = "IntegrationProviderAuthenticationError"
             /\ Thrown.endpoint = "https://dashboard.signalsciences.net/api/v0/auth"
             /\ Thrown.endpoint # endpoint
             /\ result = [kind |-> "rejected", error |-> Thrown]
             /\ Sent("GET") = {}
             /\ Sent("POST") = DOMAIN wire
             /\ lastResponse = JSUndefined
             /\ authRet = JSUndefined)
    /\ [][(pc' = "auth" \/ authErr' # JSUndefined) => token' = token]_vars

\* the second fetch fails to authenticate: the token of the first is kept
C17_Witness ==
    /\ authErr # JSUndefined
    /\ authErr.response # JSUndefined
    /\ calls = 2
    /\ token = Tok(1)
    /\ op = "iterateCorps"

(***************************************************************************)
(* C18: when the iteratee throws (or rejects) on element k, the iterator   *)
(* stops: the iteratee has been invoked for the elements 1..k and for no   *)
(* later one, none is in progress, and the caller observes the iteratee's  *)
(* own error.                                                              *)
(***************************************************************************)
C18_IterateeFailureStopsIteration ==
    IterateeThrew =>
        /\ pc = "idle"
        /\ idx \in 1..Len(data.items)
        /\ invoked = SubSeq(data.items, 1, idx)
        /\ inProgress = {}
        /\ result = [kind |-> "rejected",
                     error |-> [kind |-> "IterateeError", element |-> data.items[idx]]]
        /\ fetchRet.kind = "return"

\* the iteratee throws on the first of two elements
C18_Witness ==
    /\ IterateeThrew
    /\ idx = 1
    /\ Len(data.items) = 2
    /\ invoked = <<[id |-> 2, name |-> "globex"]>>

(***************************************************************************)
(* A second verifyAuthentication() on the same client, started while the   *)
(* first call may be suspended at an await: the same fetch() code, sharing *)
(* this.token and the provider with the first call.  Of this call the      *)
(* model keeps the token its authenticate() returned and the header its    *)
(* GET was sent with; its result is not recorded.                          *)
(***************************************************************************)
BgVerifyAuthentication ==
    /\ bgPc = "idle"
    /\ ~bgStarted
    /\ bgStarted' = TRUE
    /\ bgPc' = "auth"
    /\ bgRetry' = 0
    /\ bgRet' = JSUndefined
    /\ bgSent' = JSUndefined
    /\ UNCHANGED <<callVars, token, tokenSeq, stepVars>>

BgAuthRetry ==
    /\ bgPc = "auth"
    /\ \E err \in PostErrors : shouldRetry(err, bgRetry)
    /\ bgRetry' = bgRetry + 1
    /\ UNCHANGED <<bgPc, bgStarted, bgRet, bgSent>>
    /\ UNCHANGED <<callVars, token, tokenSeq, stepVars>>

BgAuthReject ==
    /\ bgPc = "auth"
    /\ \E err \in PostErrors : ~shouldRetry(err, bgRetry)
    /\ bgPc' = "idle"
    /\ UNCHANGED <<bgStarted, bgRetry, bgRet, bgSent>>
    /\ UNCHANGED <<callVars, token, tokenSeq, stepVars>>

\* this.token = await this.authenticate(), then the GET is sent: no await in between
BgAuthResolve ==
    /\ bgPc = "auth"
    /\ \E s \in {x \in PostStatuses : postValidateStatus(x)} :
        LET response == Response(s, [token |-> Tok(tokenSeq + 1)])
            tk == fetchToken(token, authenticateReturn(response))
        IN /\ bgRet' = authenticateReturn(response)
           /\ token' = tk
           /\ bgSent' = fetchHeaders(tk)
    /\ tokenSeq' = tokenSeq + 1
    /\ bgRetry' = 0
    /\ bgPc' = "get"
    /\ UNCHANGED bgStarted
    /\ UNCHANGED <<callVars, stepVars>>

BgGetRetry ==
    /\ bgPc = "get"
    /\ \E err \in GetErrors : shouldRetry(err, bgRetry)
    /\ bgRetry' = bgRetry + 1
    /\ UNCHANGED <<bgPc, bgStarted, bgRet, bgSent>>
    /\ UNCHANGED <<callVars, token, tokenSeq, stepVars>>

BgGetReject ==
    /\ bgPc = "get"
    /\ \E err \in GetErrors : ~shouldRetry(err, bgRetry)
    /\ bgPc' = "idle"
    /\ UNCHANGED <<bgStarted, bgRetry, bgRet, bgSent>>
    /\ UNCHANGED <<callVars, token, tokenSeq, stepVars>>

BgGetResolve ==
    /\ bgPc = "get"
    /\ \E r \in GetResponses : getValidateStatus(r.status)
    /\ bgPc' = "idle"
    /\ UNCHANGED <<bgStarted, bgRetry, bgRet, bgSent>>
    /\ UNCHANGED <<callVars, token, tokenSeq, stepVars>>

NextConc ==
    \/ verifyAuthentication
    \/ AuthRetry
    \/ AuthReject
    \/ AuthResolve
    \/ GetRetry
    \/ GetReject
    \/ GetResolve
    \/ BgVerifyAuthentication
    \/ BgAuthRetry
    \/ BgAuthReject
    \/ BgAuthResolve
    \/ BgGetRetry
    \/ BgGetReject
    \/ BgGetResolve

SpecConc == Init /\ [][NextConc]_vars

(***************************************************************************)
(* C16: when two fetch calls on one client interleave at their awaits,     *)
(* the GET of each carries the bearer token its own authenticate()         *)
(* returned, never the token the other call wrote to this.token.           *)
(***************************************************************************)
C16_OwnTokenUnderInterleaving ==
    /\ \A i \in Sent("GET") :
           /\ authRet # JSUndefined
           /\ wire[i].auth = [scheme |-> "Bearer", token |-> authRet]
    /\ bgSent # JSUndefined =>
           /\ bgRet # JSUndefined
           /\ bgSent = [scheme |-> "Bearer", token |-> bgRet]
    /\ (authRet # JSUndefined /\ bgRet # JSUndefined) => authRet # bgRet

\* both GETs in flight, this.token overwritten by the other call
C16_Witness ==
    /\ pc = "get"
    /\ bgPc = "get"
    /\ authRet = Tok(1)
    /\ bgRet = Tok(2)
    /\ token = Tok(2)
    /\ wire[Len(wire)].auth = Bearer(Tok(1))
    /\ wire[Len(wire)].outcome.t = "pending"

(***************************************************************************)
(* The cloud-WAF step: it calls the client's iterateCloudWAFInstances for  *)
(* the organization in the job state; its iteratee converts the instance   *)
(* it is handed and adds the entity to the job state.                      *)
(***************************************************************************)
\* the step starts; the iterator has fetched the collection and enters its loop
fetchCloudWAF ==
    /\ stepPc = "ready"
    /\ \E i \in DOMAIN collectedEntities : collectedEntities[i] = OrganizationEntity
    /\ \E c \in WAFCollections :
        /\ delivered' = c
        /\ stepIdx' = 1
        /\ stepPc' = IF c = <<>> THEN "done" ELSE "iterating"
    /\ UNCHANGED <<collectedEntities, stepError>>
    /\ UNCHANGED <<callVars, token, tokenSeq, bgVars>>

\* the iteratee of the step, invoked with the next instance
StepIteratee ==
    /\ stepPc = "iterating"
    /\ LET converted == createCloudWAFEntity(delivered[stepIdx])
       IN IF converted.kind = "throw"
          THEN /\ stepPc' = "failed"
               /\ stepError' = converted.error
               /\ UNCHANGED <<stepIdx, collectedEntities>>
          ELSE /\ collectedEntities' = Append(collectedEntities, converted.value)
               /\ stepIdx' = stepIdx + 1
               /\ stepPc' = IF stepIdx = Len(delivered) THEN "done" ELSE "iterating"
               /\ UNCHANGED stepError
    /\ UNCHANGED delivered
    /\ UNCHANGED <<callVars, token, tokenSeq, bgVars>>

NextStep ==
    \/ fetchCloudWAF
    \/ StepIteratee

SpecStep == Init /\ [][NextStep]_vars

Firewalls == {k \in DOMAIN collectedEntities : collectedEntities[k]._class = <<"Firewall">>}
Source(k) == collectedEntities[k]._rawData[1].rawData
Convertible(r) == r.workspaceConfigs.items # <<>> /\ r.deployment # JSUndefined

(***************************************************************************)
(* C14: the entity converted from a cloud-WAF record has the key           *)
(* 'sigsci_cloudwaf:' followed by the record's id and the siteName of the  *)
(* record's first workspaceConfigs element; the key depends on the id      *)
(* only, and records with distinct ids get distinct keys.                  *)
(***************************************************************************)
C14_KeyAndSiteName ==
    /\ \A k \in Firewalls :
           /\ Source(k) = delivered[k - 1]
           /\ collectedEntities[k]._key = "sigsci_cloudwaf:" \o Source(k).id
           /\ collectedEntities[k].siteName = Source(k).workspaceConfigs.items[1].siteName
    /\ \A j, k \in Firewalls :
           Source(j).id # Source(k).id => collectedEntities[j]._key # collectedEntities[k]._key
    /\ \A r1, r2 \in WAFRecords :
           (Convertible(r1) /\ Convertible(r2)) =>
               (createCloudWAFEntity(r1).value._key = createCloudWAFEntity(r2).value._key
                    <=> r1.id = r2.id)

\* two records converted; the second has two workspaceConfigs elements
C14_Witness ==
    /\ stepPc = "done"
    /\ Len(collectedEntities) = 3
    /\ collectedEntities[2]._key = "sigsci_cloudwaf:w1"
    /\ collectedEntities[2].siteName = Str("s1")
    /\ collectedEntities[3]._key = "sigsci_cloudwaf:w2"
    /\ collectedEntities[3].siteName = Str("s2")
    /\ Len(Source(3).workspaceConfigs.items) = 2

(***************************************************************************)
(* C15: running the cloud-WAF step with an organization entity in the job  *)
(* state adds one entity per cloud-WAF instance the iterator returns, each *)
(* of type sigsci_cloudwaf and class Firewall with a string name and       *)
(* displayName and a category list; when at least one instance is          *)
(* returned, at least one such entity is collected.                        *)
(***************************************************************************)
C15_OneEntityPerInstance ==
    stepPc \in {"done", "failed"} =>
        /\ Cardinality(Firewalls) = Len(delivered)
        /\ delivered # <<>> => Firewalls # {}
        /\ \A k \in Firewalls :
               /\ collectedEntities[k]._type = "sigsci_cloudwaf"
               /\ collectedEntities[k].name.t = "string"
               /\ collectedEntities[k].displayName.t = "string"
               /\ collectedEntities[k].category = <<"application">>

(***************************************************************************)
(* C19: createCloudWAFEntity reads workspaceConfigs[0] and deployment      *)
(* unconditionally: for a record whose workspaceConfigs is empty or whose  *)
(* deployment is missing it raises an error and produces no entity, for    *)
(* every other record it produces one; so the step fails at the first such *)
(* record the iterator delivers.                                           *)
(***************************************************************************)
C19_ConversionNotTotal ==
    /\ \A r \in WAFRecords :
           /\ createCloudWAFEntity(r).kind = "throw" <=> ~Convertible(r)
           /\ ~Convertible(r) => createCloudWAFEntity(r).error.kind = "TypeError"
    /\ \A k \in Firewalls : Convertible(Source(k))
    /\ stepPc = "failed" =>
           /\ ~Convertible(delivered[stepIdx])
           /\ stepError.kind = "TypeError"
           /\ Cardinality(Firewalls) = stepIdx - 1
           /\ \A k \in Firewalls : Source(k) # delivered[stepIdx]
    /\ stepPc = "done" => \A i \in DOMAIN delivered : Convertible(delivered[i])
    /\ stepPc = "iterating" => \A i \in 1..(stepIdx - 1) : Convertible(delivered[i])

\* the second instance delivered has no workspaceConfigs element
C19_Witness ==
    /\ stepPc = "failed"
    /\ stepIdx = 2
    /\ delivered[2].workspaceConfigs = Arr(<<>>)
    /\ delivered[2].deployment # JSUndefined
    /\ Len(collectedEntities) = 2

====
